---------------------------- MODULE Spec2Model ----------------------------
(***************************************************************************)
(* Model of oslo_cache: _memcache_pool.ConnectionPool (a queue.Queue       *)
(* subclass whose _qsize/_get/_put are overridden) and MemcacheClientPool, *)
(* whose _get and _put carry the dead-until marks of the memcached hosts   *)
(* between the clients and the pool's list _hosts_deaduntil.               *)
(*                                                                         *)
(* queue.Queue.get and queue.Queue.put run their bodies while holding the  *)
(* queue's mutex, so each is one atomic step here.  The reap scan          *)
(* (_drop_expired_connections) runs outside the mutex: every deque access  *)
(* it makes is its own step and interleaves with the other threads.        *)
(*                                                                         *)
(* Specifications:                                                         *)
(*   Spec         threads calling acquire(), get_nowait(), put_nowait() on *)
(*                a pool without memcached hosts, and its teardown         *)
(*   FairSpec     Spec with the scheduling of the threads' own steps       *)
(*   SpecForeign  Spec with callers that put connections of their own      *)
(*   SpecTracker  a pool with memcached hosts and their dead-until marks   *)
(*   FairHosts    a pool with one host used through acquire() without a    *)
(*                timeout, with the scheduling of FairSpec                 *)
(*   SpecProxy    the pool used only through ClientProxy (acquire())       *)
(*   SpecSeq      the pool with one caller at a time                       *)
(*   SpecDict     the dictionary backend (backends/dictionary.py)          *)
(*   SpecBackend  SpecDict with should_cache of core.py and the            *)
(*                constructor of PooledMemcachedBackend                    *)
(***************************************************************************)
EXTENDS Integers, Sequences, FiniteSets, TLC

\* ---- bounds of the model
NumThreads == 2
MaxTime == 2
MaxClients == 3
MaxMaxsize == 2
MaxUnusedTimeout == 1
MaxGetTimeout == 1
MaxHosts == 2
MaxDeadRetry == 2
MaxKeys == 2
MaxValues == 2
MaxExpiration == 2
MaxUtc == 3
MaxKeyList == 2

\* conn_get_timeout = None: wait indefinitely
None == -1

Threads == 1..NumThreads
NoConn == 0

VARIABLES
    maxsize,                  \* queue.Queue.maxsize
    _unused_timeout,          \* self._unused_timeout
    _connection_get_timeout,  \* self._connection_get_timeout
    _acquired,                \* self._acquired
    queue,                    \* self.queue: deque of _PoolItem, head = left end
    not_empty,                \* threads blocked in self.not_empty.wait(), FIFO
    clock,                    \* time.time()
    created,                  \* number of connections _create_connection returned
    destroyed,                \* connections passed to _destroy_connection
    pool,                     \* "alive", "del" (inside __del__), "dead"
    held,                     \* connections taken with get_nowait(), not put back
    pc,                       \* per thread: where it is in acquire()
    conn,                     \* per thread: the local variable conn
    now,                      \* per thread: the local now of the reap scan
    endtime,                  \* per thread: endtime of a timed get()
    result,                   \* per thread: how its last call ended
    urls,                     \* len(self.urls): the number of memcached hosts
    dead_retry,               \* self._arguments['dead_retry']
    _hosts_deaduntil,         \* self._hosts_deaduntil, per host
    servers,                  \* per client: conn.servers[i].deaduntil, per host
    warnings,                 \* number of LOG.warning calls of __del__
    reported,                 \* history: per host, the largest dead-until a
                              \* released client showed while it was in the future
    accepted,                 \* history: the same, counting only the releases
                              \* that found the pool's entry stale
    harvested,                \* history: the number of hosts the loop of the
                              \* last _put dealt with before it ended
    cache,                    \* DictCacheBackend.cache: key -> (value, timeout)
    expiration_time,          \* DictCacheBackend.expiration_time
    utcnow_ts,                \* timeutils.utcnow_ts()
    written,                  \* history, per key: the last set or delete
    call,                     \* the last call of a backend function: its
                              \* name, its arguments, what it returned or
                              \* raised, and the time of the call
    client_pool               \* PooledMemcachedBackend.client_pool: the class
                              \* of the pool, "none" before it is assigned

vars == <<maxsize, _unused_timeout, _connection_get_timeout, _acquired, queue,
          not_empty, clock, created, destroyed, pool, held, pc, conn, now,
          endtime, result, urls, dead_retry, _hosts_deaduntil, servers,
          warnings, reported, accepted, harvested, cache, expiration_time,
          utcnow_ts, written, call, client_pool>>

config == <<maxsize, _unused_timeout, _connection_get_timeout, urls, dead_retry>>

\* the state of the backends beside the pool
backends == <<cache, expiration_time, utcnow_ts, written, call, client_pool>>

\* what MemcacheClientPool._put writes, with its history
tracker == <<_hosts_deaduntil, reported, accepted, harvested>>

\* the hosts, by their index in self.urls
Hosts == 1..urls

\* ---- ConnectionPool.__init__ and, for n urls, MemcacheClientPool.__init__
InitPool(n, retry) ==
    /\ urls = n
    /\ dead_retry = retry
    /\ _hosts_deaduntil = [i \in 1..n |-> 0]
    /\ servers = [c \in 1..MaxClients |-> [i \in 1..n |-> 0]]
    /\ warnings = 0
    /\ reported = [i \in 1..n |-> 0]
    /\ accepted = [i \in 1..n |-> 0]
    /\ harvested = 0
    /\ maxsize \in 1..MaxMaxsize
    /\ _unused_timeout \in 0..MaxUnusedTimeout
    /\ _connection_get_timeout \in {None} \cup (0..MaxGetTimeout)
    /\ _acquired = 0
    /\ queue = <<>>
    /\ not_empty = <<>>
    /\ clock = 0
    /\ created = 0
    /\ destroyed = {}
    /\ pool = "alive"
    /\ held = {}
    /\ pc = [t \in Threads |-> "idle"]
    /\ conn = [t \in Threads |-> NoConn]
    /\ now = [t \in Threads |-> 0]
    /\ endtime = [t \in Threads |-> 0]
    /\ result = [t \in Threads |-> "none"]

\* core.NO_VALUE, and the mark of a key that was never set or was deleted
NO_VALUE == 0
Keys == 1..MaxKeys
Values == 1..MaxValues

\* no dictionary backend in use, no backend function called
NoBackend ==
    /\ cache = <<>>
    /\ expiration_time = 0
    /\ utcnow_ts = 0
    /\ written = [k \in Keys |-> [value |-> NO_VALUE, at |-> 0]]
    /\ call = [fn |-> "none", args |-> <<>>, ret |-> None, at |-> 0]
    /\ client_pool = "MemcacheClientPool"

\* a pool without memcached hosts: the loops over conn.servers are empty
Init == InitPool(0, MaxDeadRetry) /\ NoBackend

\* ---- helpers
Front(s) == SubSeq(s, 1, Len(s) - 1)
Last(s) == s[Len(s)]
RemoveThread(s, t) == SelectSeq(s, LAMBDA x : x # t)
IdleConns == {queue[i].connection : i \in 1..Len(queue)}
Live == (1..created) \ destroyed

\* faulty variant: one free slot too many
Mutant_qsize == IF maxsize # 0 THEN maxsize - _acquired + 1 ELSE 1
\* ConnectionPool._qsize
_qsize == IF maxsize # 0 THEN maxsize - _acquired ELSE 1

\* faulty variant: put never raises Full
Mutant_Full == FALSE
\* faulty variant: put raises Full one put too late
Mutant_FullAbove == maxsize > 0 /\ _qsize > maxsize
\* queue.Queue.put(block=False): "if self._qsize() >= self.maxsize: raise Full"
Full == maxsize > 0 /\ _qsize >= maxsize

\* faulty variant: the idle time to live is left out
Mutant_PoolItem(c) == [ttl |-> clock, connection |-> c]
\* the _PoolItem built by ConnectionPool._put
_PoolItem(c) == [ttl |-> clock + _unused_timeout, connection |-> c]

\* faulty variant: the released client goes to the left end of the deque
Mutant_QueueAfterPut(q, c) == <<_PoolItem(c)>> \o q
\* faulty variant: the client is not queued at all
Mutant_QueueAfterPutLeak(q, c) == q
\* ConnectionPool._put: the queue and the counter after it
QueueAfterPut(q, c) == Append(q, _PoolItem(c))
\* faulty variant: _put forgets "self._acquired -= 1"
Mutant_AcquiredAfterPut(a) == a
\* ConnectionPool._put: "self._acquired -= 1"
AcquiredAfterPut(a) == a - 1

\* faulty variant: _get always creates
Mutant_Reuse == FALSE
\* ConnectionPool._get: self.queue.pop() succeeds unless the deque is empty
\* (IndexError sends _get to _create_connection)
Reuse == queue # <<>>
\* faulty variant: the item handed out is the oldest one
Mutant_Popped == Head(queue)
\* the item self.queue.pop() takes, the right end of the deque
Popped == Last(queue)
\* faulty variant: the item handed out stays in the deque
Mutant_QueueAfterPop == queue
\* the deque self.queue.pop() leaves
QueueAfterPop == Front(queue)
\* ConnectionPool._get: "self._acquired += 1"
AcquiredAfterGet(a) == a + 1

\* _drop_expired_connections: "self.queue[0].ttl < now", "self.queue.popleft()"
\* faulty variant: an item whose ttl equals now counts as expired
Mutant_Expired(n) == queue[1].ttl <= n
Expired(n) == queue[1].ttl < n
\* faulty variant: the reaped item stays in the deque
Mutant_QueueAfterPopleft == queue
\* the deque self.queue.popleft() leaves
QueueAfterPopleft == Tail(queue)

\* faulty variant: put() forgets not_empty.notify()
Mutant_Notify(p) == p
\* threading.Condition.notify(): wake the longest-waiting thread, if any
Notify(p) == IF not_empty # <<>> THEN [p EXCEPT ![Head(not_empty)] = "woken"] ELSE p
WaitersAfterNotify == IF not_empty # <<>> THEN Tail(not_empty) ELSE not_empty


\* ---- acquire(): entry, "self._drop_expired_connections()", "now = time.time()"
Acquire(t) ==
    /\ pool = "alive"
    /\ pc[t] = "idle"
    /\ clock <= MaxTime            \* no call starts after the time horizon
    /\ pc' = [pc EXCEPT ![t] = "reap"]
    /\ now' = [now EXCEPT ![t] = clock]
    /\ result' = [result EXCEPT ![t] = "none"]
    /\ UNCHANGED <<tracker, servers, warnings>>
    /\ UNCHANGED backends
    /\ UNCHANGED <<config, _acquired, queue, not_empty, clock, created,
                   destroyed, pool, held, conn, endtime>>

\* "while self.queue[0].ttl < now": IndexError on an empty deque ends the scan
ReapCheck(t) ==
    /\ pc[t] = "reap"
    /\ IF queue # <<>> /\ Expired(now[t])
       THEN /\ pc' = [pc EXCEPT ![t] = "reap_pop"]
            /\ now' = now
       ELSE /\ pc' = [pc EXCEPT ![t] = "get"]
            /\ now' = [now EXCEPT ![t] = 0]
    /\ UNCHANGED <<tracker, servers, warnings>>
    /\ UNCHANGED backends
    /\ UNCHANGED <<config, _acquired, queue, not_empty, clock, created,
                   destroyed, pool, held, conn, endtime, result>>

\* "conn = self.queue.popleft().connection": IndexError ends the scan
ReapPop(t) ==
    /\ pc[t] = "reap_pop"
    /\ IF queue # <<>>
       THEN /\ conn' = [conn EXCEPT ![t] = Head(queue).connection]
            /\ queue' = QueueAfterPopleft
            /\ pc' = [pc EXCEPT ![t] = "reap_destroy"]
            /\ now' = now
       ELSE /\ pc' = [pc EXCEPT ![t] = "get"]
            /\ now' = [now EXCEPT ![t] = 0]
            /\ UNCHANGED <<conn, queue>>
    /\ UNCHANGED <<tracker, servers, warnings>>
    /\ UNCHANGED backends
    /\ UNCHANGED <<config, _acquired, not_empty, clock, created, destroyed,
                   pool, held, endtime, result>>

\* "self._destroy_connection(conn)", then back to the loop test
ReapDestroy(t) ==
    /\ pc[t] = "reap_destroy"
    /\ destroyed' = destroyed \cup {conn[t]}
    /\ conn' = [conn EXCEPT ![t] = NoConn]
    /\ pc' = [pc EXCEPT ![t] = "reap"]
    /\ UNCHANGED <<tracker, servers, warnings>>
    /\ UNCHANGED backends
    /\ UNCHANGED <<config, _acquired, queue, not_empty, clock, created, pool,
                   held, now, endtime, result>>

\* the call ends by raising: nothing is held, the thread is out of the pool
Raise(t, exc) ==
    /\ pc' = [pc EXCEPT ![t] = "idle"]
    /\ result' = [result EXCEPT ![t] = exc]
    /\ conn' = [conn EXCEPT ![t] = NoConn]
    /\ endtime' = [endtime EXCEPT ![t] = 0]

\* faulty variant: the counter is raised before the connection is created
Mutant_AcquiredAfterFailedCreate == _acquired + 1
\* ConnectionPool._get when _create_connection raises: the counter it leaves
AcquiredAfterFailedCreate == _acquired

\* faulty variant: _get hands the client out as it is
Mutant_ServersAfterGet(c, k) == servers
\* faulty variant: _get calls mark_dead on the hosts the pool knows dead and
\* the client thinks alive, and never assigns the pool's value
Mutant_ServersAfterGetMarkDead(c, k) ==
    [servers EXCEPT ![c] =
        [i \in Hosts |-> IF i <= k /\ _hosts_deaduntil[i] > clock /\ @[i] <= clock
                         THEN clock + dead_retry
                         ELSE @[i]]]
\* faulty variant: only the marks that are still in the future are copied
\* into the client
Mutant_ServersAfterGetFuture(c, k) ==
    [servers EXCEPT ![c] =
        [i \in Hosts |-> IF i <= k /\ _hosts_deaduntil[i] > clock
                         THEN _hosts_deaduntil[i]
                         ELSE @[i]]]
\* MemcacheClientPool._get, the loop over zip(self._hosts_deaduntil,
\* conn.servers) as far as host k: "host.deaduntil = deaduntil" (mark_dead sets
\* host.deaduntil too, and the assignment overwrites it)
ServersAfterGet(c, k) ==
    [servers EXCEPT ![c] = [i \in Hosts |-> IF i <= k THEN _hosts_deaduntil[i]
                                                      ELSE @[i]]]

\* MemcacheClientPool._get: super()._get(), then the propagation of the
\* dead-host marks, which may raise after k hosts; then
\* "super()._put(conn); raise".
\* The connection goes to the local conn of acquire() or, for get_nowait(),
\* to the caller, who keeps it until put_nowait().
_get(t, nowait) ==
    \E create_ok \in BOOLEAN, propagate_ok \in BOOLEAN :
       LET reuse == Reuse
           c == IF reuse THEN Popped.connection ELSE created + 1
           q == IF reuse THEN QueueAfterPop ELSE queue
       IN  IF ~reuse /\ ~create_ok
           THEN /\ Raise(t, "CreateError")
                /\ _acquired' = AcquiredAfterFailedCreate
                /\ UNCHANGED <<queue, created, held, servers>>
           ELSE /\ reuse \/ created < MaxClients
                /\ created' = IF reuse THEN created ELSE created + 1
                /\ IF propagate_ok
                   THEN /\ servers' = ServersAfterGet(c, urls)
                        /\ pc' = [pc EXCEPT ![t] = IF nowait THEN "idle" ELSE "block"]
                        /\ conn' = [conn EXCEPT ![t] = IF nowait THEN NoConn ELSE c]
                        /\ held' = IF nowait THEN held \cup {c} ELSE held
                        /\ queue' = q
                        /\ _acquired' = AcquiredAfterGet(_acquired)
                        /\ endtime' = [endtime EXCEPT ![t] = 0]
                        /\ result' = [result EXCEPT ![t] = IF nowait THEN "got" ELSE "none"]
                   ELSE /\ \E k \in 0..(IF urls = 0 THEN 0 ELSE urls - 1) :
                              servers' = ServersAfterGet(c, k)
                        /\ Raise(t, "PropagateError")
                        /\ queue' = QueueAfterPut(q, c)
                        /\ _acquired' = AcquiredAfterPut(AcquiredAfterGet(_acquired))
                        /\ held' = held

\* faulty variant: a wait whose time is exactly over goes on
Mutant_TimedOut(deadline) == _connection_get_timeout # None /\ deadline - clock < 0
\* queue.Queue.get(timeout=...): "remaining = endtime - time()",
\* "if remaining <= 0.0: raise Empty"; never with timeout=None
TimedOut(deadline) == _connection_get_timeout # None /\ deadline - clock <= 0

\* queue.Queue.get(timeout=...) with the mutex held: take a connection, raise
\* Empty (acquire turns it into exception.QueueEmpty), or wait on not_empty
GetLoop(t, deadline, empty) ==
    IF _qsize > 0
    THEN /\ _get(t, FALSE)
         /\ UNCHANGED <<not_empty>>
    ELSE IF TimedOut(deadline)
    THEN /\ Raise(t, empty)
         /\ UNCHANGED <<_acquired, queue, created, not_empty, held, servers>>
    ELSE /\ pc' = [pc EXCEPT ![t] = "waiting"]
         /\ endtime' = [endtime EXCEPT ![t] = deadline]
         /\ not_empty' = Append(not_empty, t)
         /\ UNCHANGED <<_acquired, queue, created, conn, result, held, servers>>

\* "conn = self.get(timeout=self._connection_get_timeout)"
Get(t) ==
    /\ pc[t] = "get"
    /\ GetLoop(t, IF _connection_get_timeout = None THEN 0
                  ELSE clock + _connection_get_timeout, "QueueEmpty")
    /\ UNCHANGED backends
    /\ UNCHANGED <<config, clock, destroyed, pool, now, tracker, warnings>>

\* faulty variant: the wait ignores its timeout
Mutant_WaitTimeout(t) ==
    /\ pc[t] = "waiting"
    /\ _connection_get_timeout = None
    /\ clock >= endtime[t]
    /\ pc' = [pc EXCEPT ![t] = "woken"]
    /\ not_empty' = RemoveThread(not_empty, t)
    /\ UNCHANGED <<tracker, servers, warnings>>
    /\ UNCHANGED backends
    /\ UNCHANGED <<config, _acquired, queue, clock, created, destroyed, pool,
                   held, conn, now, endtime, result>>
\* not_empty.wait(remaining) returns because the time is over
WaitTimeout(t) ==
    /\ pc[t] = "waiting"
    /\ _connection_get_timeout # None
    /\ clock >= endtime[t]
    /\ pc' = [pc EXCEPT ![t] = "woken"]
    /\ not_empty' = RemoveThread(not_empty, t)
    /\ UNCHANGED <<tracker, servers, warnings>>
    /\ UNCHANGED backends
    /\ UNCHANGED <<config, _acquired, queue, clock, created, destroyed, pool,
                   held, conn, now, endtime, result>>

\* after wait() returned: the loop of queue.Queue.get tests _qsize() again
Recheck(t) ==
    /\ pc[t] = "woken"
    /\ GetLoop(t, endtime[t], "QueueEmpty")
    /\ UNCHANGED backends
    /\ UNCHANGED <<config, clock, destroyed, pool, now, tracker, warnings>>


\* faulty variant: a mark the pool still holds is replaced by the client's
Mutant_HostsAfterPut(c) ==
    [i \in Hosts |-> IF servers[c][i] > clock THEN servers[c][i]
                     ELSE IF _hosts_deaduntil[i] <= clock THEN 0
                     ELSE _hosts_deaduntil[i]]
\* faulty variant: a stale entry is kept when the client sees the host alive
Mutant_HostsAfterPutKeep(c) ==
    [i \in Hosts |-> IF _hosts_deaduntil[i] <= clock /\ servers[c][i] > clock
                     THEN servers[c][i]
                     ELSE _hosts_deaduntil[i]]
\* faulty variant: a client that sees the host alive resets the entry, stale
\* or not
Mutant_HostsAfterPutReset(c) ==
    [i \in Hosts |-> IF servers[c][i] <= clock THEN 0
                     ELSE IF _hosts_deaduntil[i] <= clock THEN servers[c][i]
                     ELSE _hosts_deaduntil[i]]
\* MemcacheClientPool._put, the loop over conn.servers: an entry of
\* _hosts_deaduntil that is still in the future is left alone, a stale one
\* takes the client's mark if that is in the future and 0 otherwise
HostsAfterPut(c) ==
    [i \in Hosts |-> IF _hosts_deaduntil[i] <= clock
                     THEN IF servers[c][i] > clock THEN servers[c][i] ELSE 0
                     ELSE _hosts_deaduntil[i]]

\* faulty variant: a harvest that fails takes back what it wrote
Mutant_HostsAfterFailedPut(c, k) == _hosts_deaduntil
\* MemcacheClientPool._put when the loop raises after it has dealt with the
\* first k hosts: their entries are written, the others are as they were
HostsAfterFailedPut(c, k) ==
    [i \in Hosts |-> IF i <= k THEN HostsAfterPut(c)[i] ELSE _hosts_deaduntil[i]]

\* the points at which the loop of _put over conn.servers can raise, as the
\* number of hosts dealt with by then: inside the turn for a host (there is
\* none without hosts), before that host's entry is written or, in the log
\* call that follows the writing of a client's mark, after it
HarvestFailures(c) ==
    {k \in 0..urls :
        /\ urls >= 1
        /\ k = urls => /\ _hosts_deaduntil[urls] <= clock
                       /\ servers[c][urls] > clock}

\* queue.Queue.put(conn, block=False) past the Full test:
\* MemcacheClientPool._put (the harvest of the client's marks, then in the
\* finally clause ConnectionPool._put), then not_empty.notify(). When the
\* harvest raises, the exception leaves queue.Queue.put after the finally
\* clause of _put and before notify().
Put(t, c, exc) ==
    /\ queue' = QueueAfterPut(queue, c)
    /\ _acquired' = AcquiredAfterPut(_acquired)
    /\ conn' = [conn EXCEPT ![t] = NoConn]
    /\ UNCHANGED <<destroyed>>
    /\ \E k \in {urls} \cup {-1 - j : j \in HarvestFailures(c)} :
          LET failed == k < 0
              done == IF failed THEN -1 - k ELSE urls
          IN  /\ pc' = IF failed THEN [pc EXCEPT ![t] = "idle"]
                                 ELSE Notify([pc EXCEPT ![t] = "idle"])
              /\ not_empty' = IF failed THEN not_empty ELSE WaitersAfterNotify
              /\ result' = [result EXCEPT ![t] = IF failed THEN "HarvestError"
                                                            ELSE exc]
              /\ _hosts_deaduntil' = IF failed THEN HostsAfterFailedPut(c, done)
                                               ELSE HostsAfterPut(c)
              /\ harvested' = done
              /\ reported' =
                    [i \in Hosts |-> IF /\ i <= done
                                        /\ servers[c][i] > clock
                                        /\ servers[c][i] > reported[i]
                                     THEN servers[c][i] ELSE reported[i]]
              /\ accepted' =
                    [i \in Hosts |-> IF /\ i <= done
                                        /\ servers[c][i] > clock
                                        /\ _hosts_deaduntil[i] <= clock
                                        /\ servers[c][i] > accepted[i]
                                     THEN servers[c][i] ELSE accepted[i]]

\* faulty variant: no finally clause, the release is skipped when the block raised
Mutant_Release(t, exc) ==
    IF exc = "BodyError"
    THEN /\ pc' = [pc EXCEPT ![t] = "idle"]
         /\ conn' = [conn EXCEPT ![t] = NoConn]
         /\ result' = [result EXCEPT ![t] = exc]
         /\ UNCHANGED <<queue, _acquired, not_empty, destroyed, tracker>>
    ELSE Put(t, conn[t], exc)

\* faulty variant: the surplus client is destroyed and counted off as well
Mutant_ReleaseCounts(t, exc) ==
    IF Full
    THEN /\ destroyed' = destroyed \cup {conn[t]}
         /\ _acquired' = _acquired - 1
         /\ pc' = [pc EXCEPT ![t] = "idle"]
         /\ conn' = [conn EXCEPT ![t] = NoConn]
         /\ result' = [result EXCEPT ![t] = exc]
         /\ UNCHANGED <<queue, not_empty, tracker>>
    ELSE Put(t, conn[t], exc)
\* the finally clause of acquire(): put the connection back, or destroy it
\* when put raises queue.Full
Release(t, exc) ==
    IF Full
    THEN /\ destroyed' = destroyed \cup {conn[t]}
         /\ pc' = [pc EXCEPT ![t] = "idle"]
         /\ conn' = [conn EXCEPT ![t] = NoConn]
         /\ result' = [result EXCEPT ![t] = exc]
         /\ UNCHANGED <<queue, _acquired, not_empty, tracker>>
    ELSE Put(t, conn[t], exc)

\* "yield conn": the caller's block ends, by returning or by raising; the
\* exception, if any, is pending while the finally clause runs
ExitBlock(t) ==
    /\ pc[t] = "block"
    /\ \E raised \in BOOLEAN :
          result' = [result EXCEPT ![t] = IF raised THEN "BodyError" ELSE "none"]
    /\ pc' = [pc EXCEPT ![t] = "finally"]
    /\ UNCHANGED <<tracker, servers, warnings>>
    /\ UNCHANGED backends
    /\ UNCHANGED <<config, _acquired, queue, not_empty, clock, created,
                   destroyed, pool, held, conn, now, endtime>>

\* the finally clause; afterwards the pending exception propagates
Finally(t) ==
    /\ pc[t] = "finally"
    /\ Release(t, IF result[t] = "BodyError" THEN "BodyError" ELSE "ok")
    /\ UNCHANGED backends
    /\ UNCHANGED <<config, clock, created, pool, held, now, endtime, servers,
                   warnings>>

\* get_nowait(): queue.Queue.get(block=False), called outside acquire()
GetNowait(t) ==
    /\ pool = "alive"
    /\ pc[t] = "idle"
    /\ IF _qsize = 0
       THEN /\ Raise(t, "Empty")
            /\ UNCHANGED <<_acquired, queue, created, held, servers>>
       ELSE _get(t, TRUE)
    /\ UNCHANGED backends
    /\ UNCHANGED <<config, not_empty, clock, destroyed, pool, now, tracker,
                   warnings>>

\* put_nowait(c) of a connection c taken with get_nowait():
\* queue.Queue.put(block=False), which raises queue.Full to the caller
PutNowait(t) ==
    /\ pool = "alive"
    /\ pc[t] = "idle"
    /\ \E c \in held :
          IF Full
          THEN /\ result' = [result EXCEPT ![t] = "Full"]
               /\ UNCHANGED <<queue, _acquired, not_empty, pc, conn, destroyed,
                              held, tracker>>
          ELSE /\ Put(t, c, "put")
               /\ held' = held \ {c}
    /\ UNCHANGED backends
    /\ UNCHANGED <<config, clock, created, pool, now, endtime, servers,
                   warnings>>

\* put_nowait(c) of a connection c the pool did not hand out (the caller made
\* it; it is numbered like the pool's own): the same queue.Queue.put
PutForeign(t) ==
    /\ pool = "alive"
    /\ pc[t] = "idle"
    /\ created < MaxClients
    /\ IF Full
       THEN /\ result' = [result EXCEPT ![t] = "Full"]
            /\ UNCHANGED <<queue, _acquired, not_empty, pc, conn, destroyed,
                           created, tracker>>
       ELSE /\ Put(t, created + 1, "put")
            /\ created' = created + 1
    /\ UNCHANGED backends
    /\ UNCHANGED <<config, clock, pool, held, now, endtime, servers, warnings>>

\* the connections callers are using
InUse == held \cup {conn[t] : t \in {u \in Threads : pc[u] = "block"}}

\* a client in use fails to reach host i, which it did not hold for dead:
\* memcache's mark_dead sets "deaduntil = time.time() + dead_retry"
MarkDead(c, i) ==
    /\ pool = "alive"
    /\ c \in InUse
    /\ servers[c][i] <= clock
    /\ servers' = [servers EXCEPT ![c][i] = clock + dead_retry]
    /\ UNCHANGED <<tracker, warnings>>
    /\ UNCHANGED backends
    /\ UNCHANGED <<config, _acquired, queue, not_empty, clock, created,
                   destroyed, pool, held, pc, conn, now, endtime, result>>

\* a client in use reaches host i again after its dead-until time is over:
\* memcache's _check_dead sets "deaduntil = 0"
HostAlive(c, i) ==
    /\ pool = "alive"
    /\ c \in InUse
    /\ servers[c][i] # 0
    /\ servers[c][i] <= clock
    /\ servers' = [servers EXCEPT ![c][i] = 0]
    /\ UNCHANGED <<tracker, warnings>>
    /\ UNCHANGED backends
    /\ UNCHANGED <<config, _acquired, queue, not_empty, clock, created,
                   destroyed, pool, held, pc, conn, now, endtime, result>>

\* time.time() advances, up to MaxTime and then as far as the waits need
Tick ==
    /\ pool = "alive"
    /\ \/ clock < MaxTime
       \/ \E t \in Threads : /\ pc[t] \in {"waiting", "woken"}
                             /\ _connection_get_timeout # None
                             /\ clock < endtime[t]
    /\ clock' = clock + 1
    /\ UNCHANGED <<tracker, servers, warnings>>
    /\ UNCHANGED backends
    /\ UNCHANGED <<config, _acquired, queue, not_empty, created, destroyed,
                   pool, held, pc, conn, now, endtime, result>>

\* ConnectionPool.__del__ runs once no thread is inside a method of the pool
DelStart ==
    /\ pool = "alive"
    /\ \A t \in Threads : pc[t] = "idle"
    /\ pool' = "del"
    /\ UNCHANGED <<tracker, servers, warnings>>
    /\ UNCHANGED backends
    /\ UNCHANGED <<config, _acquired, queue, not_empty, clock, created,
                   destroyed, held, pc, conn, now, endtime, result>>

\* faulty variant: an exception of _destroy_connection ends the loop
Mutant_LoopGoesOn == FALSE
\* __del__: "except Exception" logs a warning inside "while True", so the loop
\* takes its next turn
LoopGoesOn == TRUE

\* one turn of its loop: "conn = self.queue.pop().connection", then
\* _destroy_connection(conn) (an exception it raises is logged and the loop
\* goes on); IndexError ends the loop
DelStep ==
    /\ pool = "del"
    /\ IF queue # <<>>
       THEN \E destroy_ok \in BOOLEAN :
               /\ queue' = Front(queue)
               /\ destroyed' = destroyed \cup {Last(queue).connection}
               /\ warnings' = IF destroy_ok THEN warnings ELSE warnings + 1
               /\ pool' = IF destroy_ok \/ LoopGoesOn THEN "del" ELSE "dead"
       ELSE /\ pool' = "dead"
            /\ UNCHANGED <<queue, destroyed, warnings>>
    /\ UNCHANGED <<tracker, servers>>
    /\ UNCHANGED backends
    /\ UNCHANGED <<config, _acquired, not_empty, clock, created, held, pc,
                   conn, now, endtime, result>>

Next ==
    \/ \E t \in Threads :
          \/ Acquire(t)
          \/ ReapCheck(t)
          \/ ReapPop(t)
          \/ ReapDestroy(t)
          \/ Get(t)
          \/ WaitTimeout(t)
          \/ Recheck(t)
          \/ ExitBlock(t)
          \/ Finally(t)
          \/ GetNowait(t)
          \/ PutNowait(t)
    \/ Tick
    \/ DelStart
    \/ DelStep

Spec == Init /\ [][Next]_vars

\* ---- a pool whose callers also put connections of their own: the one way
\* for put to find _qsize() >= maxsize and raise queue.Full
ForeignNext == Next \/ \E t \in Threads : PutForeign(t)

SpecForeign == Init /\ [][ForeignNext]_vars

\* ---- a pool of clients for one or more memcached hosts, whose clients are
\* taken and returned with get_nowait/put_nowait (the pool's _get and _put run
\* under the queue's mutex whoever calls them, so one calling thread shows
\* every order of the calls) and whose clients in use see hosts fail and come
\* back; nothing waits, so the timeout of get is left at None
TrackerInit ==
    /\ \E n \in 1..MaxHosts, retry \in 1..MaxDeadRetry : InitPool(n, retry)
    /\ NoBackend
    /\ _connection_get_timeout = None
    /\ _unused_timeout = MaxUnusedTimeout

TrackerNext ==
    \/ GetNowait(1) \/ PutNowait(1)
    \/ \E c \in 1..MaxClients : \E i \in Hosts : MarkDead(c, i)
    \/ \E c \in 1..MaxClients : \E i \in Hosts : HostAlive(c, i)
    \/ Tick

SpecTracker == TrackerInit /\ [][TrackerNext]_vars

\* ---- the pool as PooledMemcachedBackend uses it: every backend operation
\* goes through ClientProxy._run_method, "with self.client_pool.acquire() as
\* client: return getattr(client, name)(*args, **kwargs)"; the client's method
\* is the block of acquire(), and it returns or raises (ExitBlock). Nothing
\* calls get_nowait or put_nowait.
ProxyNext ==
    \/ \E t \in Threads :
          \/ Acquire(t)
          \/ ReapCheck(t)
          \/ ReapPop(t)
          \/ ReapDestroy(t)
          \/ Get(t)
          \/ WaitTimeout(t)
          \/ Recheck(t)
          \/ ExitBlock(t)
          \/ Finally(t)
    \/ Tick

SpecProxy == Init /\ [][ProxyNext]_vars

\* ---- the pool with one caller at a time: thread 1 alone makes the calls,
\* each one to its end before the next (acquire() with its reap scan,
\* get_nowait, put_nowait), so nothing touches the idle queue while a scan
\* is under way; time passes in between and during the calls
SeqNext ==
    \/ Acquire(1)
    \/ ReapCheck(1)
    \/ ReapPop(1)
    \/ ReapDestroy(1)
    \/ Get(1)
    \/ WaitTimeout(1)
    \/ ExitBlock(1)
    \/ Finally(1)
    \/ GetNowait(1)
    \/ PutNowait(1)
    \/ Tick

SpecSeq == Init /\ [][SeqNext]_vars

\* ---- the backends and helpers beside the pool: DictCacheBackend
\* (backends/dictionary.py), the constructor of PooledMemcachedBackend and
\* should_cache of core.py. A call is one step at one reading of the clock.

\* the state of the pool, which these calls leave alone
pools == <<config, _acquired, queue, not_empty, clock, created, destroyed,
           pool, held, pc, conn, now, endtime, result, tracker, servers,
           warnings>>

\* self.cache.get(key, (_NO_VALUE, 0))
Lookup(c, key) == IF key \in DOMAIN c THEN c[key]
                                      ELSE [value |-> NO_VALUE, timeout |-> 0]
\* self.cache.pop(key, None)
Pop(c, key) == [k \in DOMAIN c \ {key} |-> c[k]]

\* faulty variant: a key is live up to and including its timeout
Mutant_get(c, key) ==
    LET e == Lookup(c, key)
    IN  IF expiration_time > 0 /\ utcnow_ts > e.timeout
        THEN [cache |-> Pop(c, key), ret |-> NO_VALUE]
        ELSE [cache |-> c, ret |-> e.value]
\* DictCacheBackend.get on the dictionary c: the dictionary it leaves and the
\* value it returns
get(c, key) ==
    LET e == Lookup(c, key)
    IN  IF expiration_time > 0 /\ utcnow_ts >= e.timeout
        THEN [cache |-> Pop(c, key), ret |-> NO_VALUE]
        ELSE [cache |-> c, ret |-> e.value]

\* faulty variant: the values come back in reverse order
RECURSIVE Mutant_get_multi(_, _)
Mutant_get_multi(c, keys) ==
    IF keys = <<>>
    THEN [cache |-> c, ret |-> <<>>]
    ELSE LET g == get(c, Head(keys))
             r == Mutant_get_multi(g.cache, Tail(keys))
         IN  [cache |-> r.cache, ret |-> r.ret \o <<g.ret>>]
\* DictCacheBackend.get_multi: [self.get(key) for key in keys], each get on
\* the dictionary the one before it left
RECURSIVE get_multi(_, _)
get_multi(c, keys) ==
    IF keys = <<>>
    THEN [cache |-> c, ret |-> <<>>]
    ELSE LET g == get(c, Head(keys))
             r == get_multi(g.cache, Tail(keys))
         IN  [cache |-> r.cache, ret |-> <<g.ret>> \o r.ret]

\* faulty variant: _clear expunges nothing
Mutant_clear(c) == c
\* DictCacheBackend._clear: del self.cache[k] for every k with
\* timeout > 0 and now >= timeout
_clear(c) ==
    [k \in {j \in DOMAIN c : ~(c[j].timeout > 0 /\ utcnow_ts >= c[j].timeout)}
        |-> c[k]]

\* faulty variant: the timeout is computed whatever expiration_time is
Mutant_Timeout == utcnow_ts + expiration_time + 1
\* set_multi: "timeout = 0; if self.expiration_time > 0: timeout =
\* timeutils.utcnow_ts() + self.expiration_time"
Timeout == IF expiration_time > 0 THEN utcnow_ts + expiration_time ELSE 0

\* faulty variant: set_multi starts from an empty dictionary
Mutant_set_multi(c, mapping) ==
    [k \in DOMAIN mapping |-> [value |-> mapping[k], timeout |-> Timeout]]
\* DictCacheBackend.set_multi: self._clear(), then
\* self.cache[key] = (value, timeout) for every item of the mapping
set_multi(c, mapping) ==
    LET d == _clear(c)
    IN  [k \in DOMAIN d \cup DOMAIN mapping |->
            IF k \in DOMAIN mapping
            THEN [value |-> mapping[k], timeout |-> Timeout]
            ELSE d[k]]

\* DictCacheBackend.delete_multi: self.cache.pop(key, None) for every key
RECURSIVE delete_multi(_, _)
delete_multi(c, keys) ==
    IF keys = <<>> THEN c ELSE delete_multi(Pop(c, Head(keys)), Tail(keys))

\* the mappings and the key lists the callers pass
Mappings == UNION {[D -> Values] : D \in SUBSET Keys}
KeyLists == UNION {[1..n -> Keys] : n \in 0..MaxKeyList}

\* history: the last set of each key of the mapping, now
Written(mapping) ==
    [k \in Keys |-> IF k \in DOMAIN mapping
                    THEN [value |-> mapping[k], at |-> utcnow_ts]
                    ELSE written[k]]
\* history: the keys deleted
Unwritten(ks) ==
    [k \in Keys |-> IF k \in ks THEN [value |-> NO_VALUE, at |-> 0]
                                ELSE written[k]]
\* the record of a call
Call(fn, args, ret) == [fn |-> fn, args |-> args, ret |-> ret, at |-> utcnow_ts]

\* backend.get(key)
DictGet(key) ==
    /\ cache' = get(cache, key).cache
    /\ call' = Call("get", <<key>>, get(cache, key).ret)
    /\ UNCHANGED <<expiration_time, utcnow_ts, written, client_pool>>
    /\ UNCHANGED pools

\* backend.get_multi(keys)
DictGetMulti(keys) ==
    /\ cache' = get_multi(cache, keys).cache
    /\ call' = Call("get_multi", <<keys>>, get_multi(cache, keys).ret)
    /\ UNCHANGED <<expiration_time, utcnow_ts, written, client_pool>>
    /\ UNCHANGED pools

\* backend.set(key, value): self.set_multi({key: value})
DictSet(key, value) ==
    /\ cache' = set_multi(cache, [k \in {key} |-> value])
    /\ written' = Written([k \in {key} |-> value])
    /\ call' = Call("set", <<key, value>>, None)
    /\ UNCHANGED <<expiration_time, utcnow_ts, client_pool>>
    /\ UNCHANGED pools

\* backend.set_multi(mapping)
DictSetMulti(mapping) ==
    /\ cache' = set_multi(cache, mapping)
    /\ written' = Written(mapping)
    /\ call' = Call("set_multi", <<mapping>>, None)
    /\ UNCHANGED <<expiration_time, utcnow_ts, client_pool>>
    /\ UNCHANGED pools

\* backend.delete(key)
DictDelete(key) ==
    /\ cache' = Pop(cache, key)
    /\ written' = Unwritten({key})
    /\ call' = Call("delete", <<key>>, None)
    /\ UNCHANGED <<expiration_time, utcnow_ts, client_pool>>
    /\ UNCHANGED pools

\* backend.delete_multi(keys)
DictDeleteMulti(keys) ==
    /\ cache' = delete_multi(cache, keys)
    /\ written' = Unwritten({keys[j] : j \in DOMAIN keys})
    /\ call' = Call("delete_multi", <<keys>>, None)
    /\ UNCHANGED <<expiration_time, utcnow_ts, client_pool>>
    /\ UNCHANGED pools

\* backend._clear(), called from outside as the tests do
DictClear ==
    /\ cache' = _clear(cache)
    /\ call' = Call("_clear", <<>>, None)
    /\ UNCHANGED <<expiration_time, utcnow_ts, written, client_pool>>
    /\ UNCHANGED pools

\* time passes between two calls
Advance ==
    /\ utcnow_ts < MaxUtc
    /\ utcnow_ts' = utcnow_ts + 1
    /\ UNCHANGED <<cache, expiration_time, written, call, client_pool>>
    /\ UNCHANGED pools

\* the options of a configuration group: with or without "caching"
ConfGroups == {<<>>} \cup [{"caching"} -> BOOLEAN]

\* faulty variant: the group's option alone decides
Mutant_should_cache(enabled, conf_group) ==
    IF "caching" \in DOMAIN conf_group THEN conf_group["caching"] ELSE TRUE
\* should_cache of _get_should_cache_fn: "if not conf.cache.enabled: return
\* False", then getattr(conf_group, 'caching', True)
should_cache(enabled, conf_group) ==
    IF ~enabled
    THEN FALSE
    ELSE IF "caching" \in DOMAIN conf_group THEN conf_group["caching"] ELSE TRUE

\* memoize.should_cache(value) under a configuration
ShouldCache(enabled, conf_group) ==
    /\ call' = Call("should_cache", <<enabled, conf_group>>,
                    should_cache(enabled, conf_group))
    /\ UNCHANGED <<cache, expiration_time, utcnow_ts, written, client_pool>>
    /\ UNCHANGED pools

\* the arguments of PooledMemcachedBackend that __init__ looks at; username
\* and password are None or given (1); bmemcache tells whether the import of
\* _bmemcache_pool succeeded
Arguments == [tls_enabled : BOOLEAN, sasl_enabled : BOOLEAN,
              username : {None, 1}, password : {None, 1}]

\* faulty variant: the credentials are looked at after the pool was made
Mutant_PoolAfterInit(arguments, bmemcache) ==
    IF arguments.tls_enabled \/ arguments.sasl_enabled
    THEN IF bmemcache THEN "BMemcacheClientPool" ELSE "none"
    ELSE "MemcacheClientPool"
\* PooledMemcachedBackend.__init__: what it raises, None if it returns
Raised(arguments, bmemcache) ==
    IF arguments.tls_enabled \/ arguments.sasl_enabled
    THEN IF /\ arguments.sasl_enabled
            /\ (arguments.username = None \/ arguments.password = None)
         THEN "ConfigurationError"
         ELSE IF ~bmemcache THEN "ImportError" ELSE "None"
    ELSE "None"
\* PooledMemcachedBackend.__init__: self.client_pool when it is over
PoolAfterInit(arguments, bmemcache) ==
    IF Raised(arguments, bmemcache) # "None"
    THEN "none"
    ELSE IF arguments.tls_enabled \/ arguments.sasl_enabled
         THEN "BMemcacheClientPool"
         ELSE "MemcacheClientPool"

\* PooledMemcachedBackend(arguments): a new backend object
PooledInit(arguments, bmemcache) ==
    /\ client_pool' = PoolAfterInit(arguments, bmemcache)
    /\ call' = Call("__init__", <<arguments, bmemcache>>,
                    Raised(arguments, bmemcache))
    /\ UNCHANGED <<cache, expiration_time, utcnow_ts, written>>
    /\ UNCHANGED pools

\* DictCacheBackend.__init__: expiration_time from the arguments, an empty
\* dictionary; no pooled backend constructed yet
BackendInit ==
    /\ InitPool(0, MaxDeadRetry)
    /\ maxsize = 1
    /\ _unused_timeout = 0
    /\ _connection_get_timeout = None
    /\ cache = <<>>
    /\ expiration_time \in 0..MaxExpiration
    /\ utcnow_ts = 0
    /\ written = [k \in Keys |-> [value |-> NO_VALUE, at |-> 0]]
    /\ call = [fn |-> "none", args |-> <<>>, ret |-> None, at |-> 0]
    /\ client_pool = "none"

\* the calls of a dictionary backend, and time passing between them
DictNext ==
    \/ \E key \in Keys : DictGet(key)
    \/ \E keys \in KeyLists : DictGetMulti(keys)
    \/ \E key \in Keys : \E value \in Values : DictSet(key, value)
    \/ \E mapping \in Mappings : DictSetMulti(mapping)
    \/ \E key \in Keys : DictDelete(key)
    \/ \E keys \in KeyLists : DictDeleteMulti(keys)
    \/ DictClear
    \/ Advance

SpecDict == BackendInit /\ [][DictNext]_vars

\* a service that uses the dictionary backend, asks should_cache under its
\* configuration and constructs pooled backends
BackendNext ==
    \/ DictNext
    \/ \E enabled \in BOOLEAN : \E conf_group \in ConfGroups :
          ShouldCache(enabled, conf_group)
    \/ \E arguments \in Arguments : \E bmemcache \in BOOLEAN :
          PooledInit(arguments, bmemcache)

SpecBackend == BackendInit /\ [][BackendNext]_vars

\* ---- scheduling: a thread that is inside acquire() and able to take its
\* next step is scheduled in the end (the interpreter switches threads, a
\* timed wait returns); the callers decide when they call and when their
\* blocks end, so Acquire, ExitBlock, GetNowait and PutNowait are not forced.
\* Time passes, and __del__ once started runs on.
Step(t) == \/ ReapCheck(t)
           \/ ReapPop(t)
           \/ ReapDestroy(t)
           \/ Get(t)
           \/ WaitTimeout(t)
           \/ Recheck(t)
           \/ Finally(t)

Fairness == /\ \A t \in Threads : WF_vars(Step(t))
            /\ WF_vars(Tick)
            /\ WF_vars(DelStep)

FairSpec == Spec /\ Fairness

\* ---- the pool of PooledMemcachedBackend with one host: the callers go
\* through acquire() only and wait without a timeout (conn_get_timeout=None),
\* the clients in use see the host fail and come back, and the threads
\* inside acquire() are scheduled as above
HostsInit ==
    /\ \E retry \in 1..MaxDeadRetry : InitPool(1, retry)
    /\ NoBackend
    /\ _connection_get_timeout = None
    /\ _unused_timeout = MaxUnusedTimeout

HostsNext ==
    \/ \E t \in Threads :
          \/ Acquire(t)
          \/ ReapCheck(t)
          \/ ReapPop(t)
          \/ ReapDestroy(t)
          \/ Get(t)
          \/ Recheck(t)
          \/ ExitBlock(t)
          \/ Finally(t)
    \/ Tick
    \/ \E c \in 1..MaxClients : \E i \in Hosts : MarkDead(c, i)
    \/ \E c \in 1..MaxClients : \E i \in Hosts : HostAlive(c, i)

FairHosts == HostsInit /\ [][HostsNext]_vars /\ Fairness


\* ---------------------------------------------------------------- claims
\* the threads inside the block of acquire() or its finally clause, and the
\* clients that are with callers (through acquire() or get_nowait())
Holds(t) == pc[t] \in {"block", "finally"}
Holders == {t \in Threads : Holds(t)}
CheckedOut == {conn[t] : t \in Holders} \cup held

\* C1: in every reachable state of a pool with maxsize N > 0, _acquired plus
\* the length of the idle queue is at most N.
C1_Capacity == maxsize > 0 => _acquired + Len(queue) <= maxsize
\* the bound is met with idle and outstanding clients at once
C1_Witness == /\ _acquired + Len(queue) = maxsize
              /\ _acquired > 0
              /\ Len(queue) > 0

\* C2: exclusive checkout: between the hand-out of a client to one caller and
\* that caller's release no other caller is handed the same client.
C2_ExclusiveCheckout ==
    /\ \A t, u \in Threads : (t # u /\ Holds(t) /\ Holds(u)) => conn[t] # conn[u]
    /\ \A t \in Threads : Holds(t) => conn[t] \notin held
\* two callers are inside their blocks at once
C2_Witness ==
    \E t, u \in Threads : /\ t # u
                          /\ pc[t] = "block"
                          /\ pc[u] = "block"
                          /\ conn[t] \in Live
                          /\ conn[u] \in Live

\* C3: a client is never both idle and outstanding; neither the reap scan nor
\* teardown destroys a client a caller has checked out; a destroyed client is
\* never handed out again (it is neither idle nor held).
C3_ClientLifecycle ==
    /\ CheckedOut \cap IdleConns = {}
    /\ CheckedOut \cap destroyed = {}
    /\ \A t \in Threads : pc[t] = "reap_destroy" => conn[t] \notin CheckedOut
    /\ IdleConns \cap destroyed = {}
\* two clients were destroyed and the pool is torn down while a caller still
\* keeps a live client
C3_Witness ==
    /\ pool = "dead"
    /\ Cardinality(destroyed) = 2
    /\ held # {}
    /\ held \subseteq Live


\* C4: at every moment the number of live connections (created and not yet
\* passed to _destroy_connection) is at most maxsize.
C4_LiveAtMostMaxsize == Cardinality(Live) <= maxsize

\* a step in which the pool hands out a connection, and the connection
HandOut == \/ \E t \in Threads : pc[t] # "block" /\ pc'[t] = "block"
           \/ held' # held /\ held \subseteq held'
Got == CheckedOut' \ CheckedOut

\* C5: an acquisition with an empty idle queue and _acquired < maxsize creates
\* exactly one connection; an acquisition with an idle client hands out an idle
\* client and creates none; both raise _acquired by exactly one.
C5_CreateOrReuse ==
    [][HandOut =>
          /\ _acquired < maxsize
          /\ _acquired' = _acquired + 1
          /\ Cardinality(Got) = 1
          /\ IF queue = <<>>
             THEN /\ created' = created + 1
                  /\ Got = {created'}
                  /\ queue' = queue
             ELSE /\ created' = created
                  /\ Got = {Last(queue).connection}
                  /\ queue' = Front(queue)]_vars
\* a caller is in its block with the one client ever created, which another
\* caller used and released before
C5_Witness ==
    \E t, u \in Threads : /\ t # u
                          /\ pc[t] = "block"
                          /\ created = 1
                          /\ conn[t] = 1
                          /\ result[u] = "ok"

\* C6: when an acquire() block exits normally the release lowers _acquired by
\* the one the hand-out added (so it is back at its value before the acquire)
\* and the client becomes the tail of the idle queue with
\* ttl = release time + unused_timeout.
C6_NormalExit ==
    [][\A t \in Threads :
          /\ (pc[t] \in {"get", "woken"} /\ pc'[t] = "block")
                => _acquired' = _acquired + 1
          /\ (pc[t] = "block" /\ pc'[t] # "block") => _acquired' = _acquired
          /\ (pc[t] = "finally" /\ pc'[t] # "finally" /\ result[t] = "none") =>
                /\ _acquired' = _acquired - 1
                /\ queue' = Append(queue, [ttl |-> clock + _unused_timeout,
                                           connection |-> conn[t]])
                /\ result'[t] = "ok"
                /\ pc'[t] = "idle"]_vars
\* after two normal exits at different times the later one is the tail
C6_Witness ==
    /\ Len(queue) = 2
    /\ _acquired = 0
    /\ queue[2].ttl = clock + _unused_timeout
    /\ queue[1].ttl < queue[2].ttl
    /\ \A t \in Threads : pc[t] = "idle" /\ result[t] = "ok"

\* C7: if the caller's block raises, the client is released exactly once (put
\* back as the tail of the idle queue, or destroyed), _acquired is lowered by
\* one and never leaks, and the caller's exception propagates afterwards.
C7_ExceptionExit ==
    /\ [](_acquired = Cardinality(Holders) + Cardinality(held))
    /\ [][\A t \in Threads :
            (pc[t] = "finally" /\ pc'[t] # "finally" /\ result[t] = "BodyError") =>
                /\ result'[t] = "BodyError"
                /\ pc'[t] = "idle"
                /\ conn'[t] = NoConn
                /\ conn[t] \notin IdleConns \cup destroyed
                /\ _acquired' = _acquired - 1
                /\ \/ /\ queue' = Append(queue, [ttl |-> clock + _unused_timeout,
                                                 connection |-> conn[t]])
                      /\ destroyed' = destroyed
                   \/ /\ queue' = queue
                      /\ destroyed' = destroyed \cup {conn[t]}]_vars
\* a block raised and its client is back in the idle queue
C7_Witness ==
    \E t \in Threads : /\ pc[t] = "idle"
                       /\ result[t] = "BodyError"
                       /\ _acquired = 0
                       /\ Len(queue) = 1

\* C8: if _create_connection fails the failure reaches the caller, _acquired
\* and the idle queue are unchanged, and the attempt does not count against
\* the capacity (_qsize is what it was).
C8_CreateFailure ==
    [][\A t \in Threads :
          (result'[t] = "CreateError" /\ <<pc[t], result[t]>> # <<"idle", "CreateError">>) =>
                /\ queue = <<>>
                /\ _acquired < maxsize
                /\ pc'[t] = "idle"
                /\ conn'[t] = NoConn
                /\ _acquired' = _acquired
                /\ queue' = queue
                /\ created' = created
                /\ _qsize' = _qsize]_vars
\* a creation failed for one caller while another holds a client
C8_Witness ==
    \E t, u \in Threads : /\ pc[t] = "idle"
                          /\ result[t] = "CreateError"
                          /\ pc[u] = "block"
                          /\ _acquired = 1

\* C9: with maxsize clients outstanding a non-blocking acquisition
\* (get_nowait) can only raise Empty, changing neither _acquired nor the idle
\* queue; with fewer outstanding it never raises Empty, and it succeeds when a
\* released client is idle.
C9_NonBlockingLimit ==
    \A t \in Threads : (pool = "alive" /\ pc[t] = "idle") =>
        /\ _acquired = maxsize =>
              /\ ENABLED (GetNowait(t) /\ result'[t] = "Empty")
              /\ ~ENABLED (GetNowait(t) /\ \/ result'[t] # "Empty"
                                           \/ held' # held
                                           \/ _acquired' # _acquired
                                           \/ queue' # queue)
        /\ _acquired < maxsize =>
              /\ ~ENABLED (GetNowait(t) /\ result'[t] = "Empty")
              /\ queue # <<>> =>
                    ENABLED (GetNowait(t) /\ result'[t] = "got"
                                          /\ held' # held
                                          /\ held' \ held \subseteq IdleConns)
\* maxsize > 1 clients were taken, none put back, and a further get_nowait
\* raised Empty
C9_Witness ==
    \E t \in Threads : /\ pool = "alive"
                       /\ pc[t] = "idle"
                       /\ result[t] = "Empty"
                       /\ maxsize > 1
                       /\ Cardinality(held) = maxsize

\* C10: when all maxsize clients are outstanding and the timeout of acquire()
\* is over (at once with conn_get_timeout = 0) acquire() raises QueueEmpty and
\* leaves _acquired as it was; a caller's block never runs with a null or
\* destroyed client; QueueEmpty is raised only while maxsize clients are
\* outstanding, so not once a holder has released.
C10_Timeout ==
    /\ [](\A t \in Threads : pc[t] \in {"block", "finally"} => conn[t] \in Live)
    /\ [][\A t \in Threads :
            /\ ( /\ pc[t] \in {"get", "woken"}
                 /\ pc'[t] # pc[t]
                 /\ _acquired = maxsize
                 /\ _connection_get_timeout # None
                 /\ clock >= (IF pc[t] = "get" THEN clock + _connection_get_timeout
                                               ELSE endtime[t]) ) =>
                    /\ result'[t] = "QueueEmpty"
                    /\ pc'[t] = "idle"
                    /\ conn'[t] = NoConn
                    /\ _acquired' = _acquired
            /\ (result'[t] = "QueueEmpty" /\ pc[t] # "idle") =>
                    /\ _acquired = maxsize
                    /\ _acquired' = _acquired]_vars
\* the holder is in its block and another caller's acquire raised QueueEmpty
C10_Witness ==
    \E t, u \in Threads : /\ pc[t] = "idle"
                          /\ result[t] = "QueueEmpty"
                          /\ pc[u] = "block"
                          /\ _acquired = maxsize

\* a step in which a client goes back into the idle queue from a caller
PutBack == _acquired' = _acquired - 1 /\ Len(queue') = Len(queue) + 1

InAcquire == {"reap", "reap_pop", "reap_destroy", "get", "waiting", "woken"}

\* C12: with a finite conn_get_timeout every acquire() call comes to an end
\* under fair scheduling, whether or not a holder ever releases: the caller
\* gets a client, or the call raises (QueueEmpty when the pool stayed
\* exhausted, the error of a failed creation or propagation otherwise); a
\* call that waited raises QueueEmpty only with its timeout over.
C12_Terminates ==
    /\ \A t \in Threads :
          (_connection_get_timeout # None /\ pc[t] \in InAcquire)
             ~> \/ pc[t] = "block" /\ conn[t] \in Live
                \/ /\ pc[t] = "idle"
                   /\ result[t] \in {"QueueEmpty", "CreateError", "PropagateError"}
    /\ [][\A t \in Threads :
            (pc[t] = "woken" /\ result'[t] = "QueueEmpty") =>
                _qsize = 0 /\ clock >= endtime[t]]_vars
\* a call with a timeout above 0 waited it out and raised QueueEmpty while the
\* holder never released
C12_Witness ==
    \E t, u \in Threads : /\ pc[t] = "idle"
                          /\ result[t] = "QueueEmpty"
                          /\ _connection_get_timeout > 0
                          /\ clock >= _connection_get_timeout
                          /\ pc[u] = "block"
                          /\ result[u] = "none"

\* C13: when the reap scan of an acquire() that read the time now ends, no
\* idle item with ttl < now is left in the queue, whatever acquire/release
\* sequence built the queue; the scan goes on to popleft whenever the head is
\* expired, and every item it takes out is passed to _destroy_connection.
C13_NoExpiredAfterReap ==
    [][\A t \in Threads :
          /\ (pc[t] \in {"reap", "reap_pop"} /\ pc'[t] = "get") =>
                \A i \in 1..Len(queue) : queue[i].ttl >= now[t]
          /\ (pc[t] = "reap" /\ pc'[t] # "reap" /\ queue # <<>>
                 /\ queue[1].ttl < now[t]) => pc'[t] = "reap_pop"
          /\ (pc[t] = "reap_destroy" /\ pc'[t] # "reap_destroy") =>
                /\ conn[t] \notin destroyed
                /\ destroyed' = destroyed \cup {conn[t]}]_vars
\* a scan has ended after it destroyed an expired client, and a client that
\* is not expired stays idle
C13_Witness ==
    \E t \in Threads : /\ pc[t] = "get"
                       /\ pool = "alive"
                       /\ destroyed # {}
                       /\ queue # <<>>
                       /\ queue[1].ttl >= clock

\* C14: every client the reap scan takes out of the queue had ttl < now (the
\* now of that scan) and was the oldest idle item at the moment it was
\* removed, under any interleaving of the scan with other threads.
C14_ReapOnlyExpired ==
    [][\A t \in Threads :
          (pc[t] = "reap_pop" /\ pc'[t] = "reap_destroy") =>
              /\ conn'[t] = Head(queue).connection
              /\ \A i \in 1..Len(queue) : Head(queue).ttl <= queue[i].ttl
              /\ Head(queue).ttl < now[t]]_vars

\* a step that ends the finally clause of acquire() of thread t
ReleaseStep(t) == pc[t] = "finally" /\ pc'[t] # "finally"

\* C15: a release that finds the idle queue holding maxsize items destroys
\* the client instead of queuing it, and the length of the idle queue never
\* exceeds maxsize.
C15_SurplusDestroyed ==
    /\ [](Len(queue) <= maxsize)
    /\ [][\A t \in Threads :
            (ReleaseStep(t) /\ Len(queue) >= maxsize) =>
                /\ queue' = queue
                /\ conn[t] \notin destroyed
                /\ destroyed' = destroyed \cup {conn[t]}
                /\ pc'[t] = "idle"]_vars
\* an acquire() block has ended and its client was destroyed with the idle
\* queue full (at time 0 nothing is expired, so no scan destroyed it)
C15_Witness ==
    \E t \in Threads : /\ pool = "alive"
                       /\ clock = 0
                       /\ pc[t] = "idle"
                       /\ result[t] \in {"ok", "BodyError"}
                       /\ destroyed # {}
                       /\ Len(queue) = maxsize

\* C16 (as first stated): every release at the end of an acquire() block
\* lowers _acquired by exactly one, whether the client goes back to the idle
\* queue or is destroyed as surplus.
C16_AlwaysDecrement ==
    [][\A t \in Threads : ReleaseStep(t) => _acquired' = _acquired - 1]_vars

\* C16: a release at the end of an acquire() block lowers _acquired by
\* exactly one when the client goes back to the idle queue; when put raises
\* queue.Full and the client is destroyed as surplus, _acquired is 0 already
\* and stays as it is.
C16_DecrementOnPutBack ==
    [][\A t \in Threads :
          ReleaseStep(t) =>
              IF conn[t] \in IdleConns'
              THEN /\ _acquired >= 1
                   /\ _acquired' = _acquired - 1
                   /\ destroyed' = destroyed
              ELSE /\ _acquired = 0
                   /\ _acquired' = _acquired
                   /\ conn[t] \in destroyed'
                   /\ queue' = queue]_vars
\* a block ended normally and its client was destroyed as surplus, with no
\* client counted as outstanding
C16_Witness ==
    \E t \in Threads : /\ pool = "alive"
                       /\ clock = 0
                       /\ pc[t] = "idle"
                       /\ result[t] = "ok"
                       /\ _acquired = 0
                       /\ Cardinality(destroyed) = 1

Released(c) == c \in CheckedOut /\ c \notin IdleConns /\ c \in IdleConns'
\* such a step in which _put dealt with every host (its loop did not raise)
Harvested(c) ==
    /\ Released(c)
    /\ \A t \in Threads :
          (pc[t] = "finally" \/ held' # held) => result'[t] # "HarvestError"

\* C18 (as first stated): once a released client has shown host i dead until
\* T, every client handed out later at a time before T has host i dead until
\* T or later, whatever _hosts_deaduntil held for i at that release.
C18_ReportPropagates ==
    [][HandOut =>
          \A c \in Got : \A i \in Hosts :
              clock < reported[i] => servers'[c][i] >= reported[i]]_vars

\* C18: once a released client has shown host i dead until T at a release
\* that found the pool's entry for i stale (<= the time of the release), the
\* pool's entry is T until time T, and every client handed out before T, new
\* or reused, has host i dead until T.
C18_AcceptedPropagates ==
    /\ [](\A i \in Hosts : clock < accepted[i] => _hosts_deaduntil[i] = accepted[i])
    /\ [][HandOut =>
            \A c \in Got : \A i \in Hosts :
                clock < accepted[i] => servers'[c][i] = accepted[i]]_vars
\* a client created after the release that reported a dead host holds the
\* reported mark, which is still in the future, while another client is idle
C18_Witness ==
    \E i \in Hosts : /\ created >= 2
                     /\ created \in held
                     /\ queue # <<>>
                     /\ accepted[i] > clock
                     /\ servers[created][i] = accepted[i]
                     /\ \A c \in IdleConns : servers[c][i] = accepted[i]

\* the larger of two times
Max(a, b) == IF a >= b THEN a ELSE b

\* C19 (as first stated): when a released client shows host i dead until a
\* future time R (and the loop of _put runs to its end), the pool's entry
\* for i after the release is the maximum of its previous value and R, for
\* every previous value.
C19_TrackerMax ==
    [][\A c \in 1..MaxClients : Harvested(c) =>
          \A i \in Hosts :
              servers[c][i] > clock =>
                  _hosts_deaduntil'[i] = Max(_hosts_deaduntil[i], servers[c][i])]_vars

\* C19: when a released client shows host i dead until a future time R (and
\* the loop of _put runs to its end), the pool's entry for i becomes R if its
\* previous value was stale (<= now, so R is the maximum of the two), and
\* keeps its previous value if that is still in the future, be it below or
\* above R.
C19_TrackerTakesReport ==
    [][\A c \in 1..MaxClients : Harvested(c) =>
          \A i \in Hosts :
              servers[c][i] > clock =>
                  _hosts_deaduntil'[i] = IF _hosts_deaduntil[i] <= clock
                                         THEN servers[c][i]
                                         ELSE _hosts_deaduntil[i]]_vars
\* the pool holds a mark for host i that is still in the future, and an idle
\* client shows a later one, which its release did not store
C19_Witness ==
    \E i \in Hosts : \E c \in IdleConns :
        /\ _hosts_deaduntil[i] > clock
        /\ servers[c][i] > _hosts_deaduntil[i]

\* C20: on a release at time now whose loop over the hosts runs to its end,
\* every entry of _hosts_deaduntil that is stale (<= now) becomes the
\* client's dead-until for that host if that is > now, and 0 otherwise.
C20_StaleEntry ==
    [][\A c \in 1..MaxClients : Harvested(c) =>
          \A i \in Hosts :
              _hosts_deaduntil[i] <= clock =>
                  _hosts_deaduntil'[i] = IF servers[c][i] > clock
                                         THEN servers[c][i]
                                         ELSE 0]_vars
\* the pool's entry for host i held a mark, which has run out, and a release
\* has set it back to 0 since; the released client is idle
C20_Witness ==
    \E i \in Hosts : /\ accepted[i] > 0
                     /\ accepted[i] <= clock
                     /\ _hosts_deaduntil[i] = 0
                     /\ queue # <<>>
                     /\ servers[Last(queue).connection][i] <= clock

\* C21: every client handed out, new or reused, has, for each host i whose
\* entry in _hosts_deaduntil is in the future (> now) at the hand-out, its
\* own dead-until for i equal to that entry.
C21_HandedOutHoldsMarks ==
    [][HandOut =>
          \A c \in Got : \A i \in Hosts :
              _hosts_deaduntil[i] > clock =>
                  servers'[c][i] = _hosts_deaduntil[i]]_vars
\* the older of two clients is checked out at a time later than the mark of
\* host i was set, and shows the pool's mark, which is not the one mark_dead
\* would set now
C21_Witness ==
    \E i \in Hosts : \E c \in held :
        /\ c < created
        /\ _hosts_deaduntil[i] > clock
        /\ servers[c][i] = _hosts_deaduntil[i]
        /\ _hosts_deaduntil[i] # clock + dead_retry
        /\ created \in IdleConns

\* C22: every operation made through ClientProxy acquires exactly one pooled
\* client, delegates to it and releases it on every exit path: a thread that
\* is between two operations holds no client, the operations that hold a
\* client hold one each and _acquired counts exactly those (so an operation
\* leaves _acquired as it found it), the step that hands a client out hands
\* out one, and the step that ends a delegated call, returned or raised, puts
\* its client back into the idle queue.
C22_ProxyReleases ==
    /\ [](/\ \A t \in Threads : pc[t] = "idle" => conn[t] = NoConn
          /\ \A t \in Holders : conn[t] # NoConn
          /\ \A t, u \in Holders : conn[t] = conn[u] => t = u
          /\ held = {}
          /\ _acquired = Cardinality(Holders))
    /\ [][/\ HandOut => Cardinality(Got) = 1
          /\ \A t \in Threads :
                ReleaseStep(t) => /\ pc'[t] = "idle"
                                  /\ conn[t] \in IdleConns'
                                  /\ conn[t] \notin destroyed'
                                  /\ _acquired' = _acquired - 1]_vars
\* both threads have made a call that raised in the client and one that
\* returned or is under way: one is back between operations after a raise,
\* its client idle again, the other is delegating to a second client
C22_Witness ==
    /\ pc[1] = "idle"
    /\ result[1] = "BodyError"
    /\ pc[2] = "block"
    /\ _acquired = 1
    /\ Len(queue) = 1
    /\ conn[2] \notin IdleConns

\* the arguments of the last call lack a credential SASL needs
SaslUnconfigured(arguments) ==
    /\ arguments.sasl_enabled
    /\ (arguments.username = None \/ arguments.password = None)

\* C23: constructing the pooled backend with sasl_enabled true and username
\* or password missing raises ConfigurationError and leaves no pool
\* constructed, whatever the other arguments are; a pool exists only when the
\* constructor returned, that is after the arguments passed the validation.
C23_SaslValidatedFirst ==
    call.fn = "__init__" =>
        /\ SaslUnconfigured(call.args[1]) =>
               call.ret = "ConfigurationError" /\ client_pool = "none"
        /\ client_pool # "none" =>
               call.ret = "None" /\ ~SaslUnconfigured(call.args[1])
\* SASL with a password and no username, and the binary client's pool not
\* importable either: ConfigurationError comes first, no pool
C23_Witness ==
    /\ call.fn = "__init__"
    /\ call.args[1].sasl_enabled
    /\ call.args[1].username = None
    /\ call.args[1].password # None
    /\ ~call.args[2]
    /\ call.ret = "ConfigurationError"
    /\ client_pool = "none"

\* what get(key) has to return at time t: the value of the last set of the
\* key, if there was one, no delete followed it, and fewer than
\* expiration_time seconds have passed since (expiration_time > 0)
Expected(key, t) ==
    IF /\ written[key].value # NO_VALUE
       /\ (expiration_time > 0 => t - written[key].at < expiration_time)
    THEN written[key].value
    ELSE NO_VALUE

\* C24: after any sequence of set, set_multi, delete, delete_multi, get,
\* get_multi, _clear and clock advances, get(k) returns the most recently set
\* value of k if k was set, not deleted since, and, when expiration_time > 0,
\* less than expiration_time has passed since that set; otherwise it returns
\* NO_VALUE (and never raises: it returns in every state).
C24_GetReturnsLastSet ==
    /\ call.fn = "get" => call.ret = Expected(call.args[1], call.at)
    /\ \A k \in Keys : get(cache, k).ret = Expected(k, utcnow_ts)
\* a key set twice is read back with the second value while it is live, and
\* a get exactly expiration_time after the set returned NO_VALUE
C24_Witness ==
    /\ expiration_time = 2
    /\ call.fn = "get"
    /\ call.ret = NO_VALUE
    /\ written[call.args[1]].value # NO_VALUE
    /\ call.at = written[call.args[1]].at + expiration_time
    /\ call.args[1] \notin DOMAIN cache
    /\ \E k \in DOMAIN cache : /\ get(cache, k).ret = written[k].value
                                /\ written[k].at > 0

\* C25: with expiration_time = 0 a key that was set and not deleted since is
\* stored, with the value of its last set, and get returns that value, after
\* any clock advance and any number of set, set_multi and _clear calls.
C25_ZeroNeverExpires ==
    expiration_time = 0 =>
        \A k \in Keys :
            written[k].value # NO_VALUE =>
                /\ k \in DOMAIN cache
                /\ cache[k].value = written[k].value
                /\ get(cache, k).ret = written[k].value
\* a key set at time 0 is still stored at the last moment of the clock,
\* after a set of another key at a later time and a _clear after that
C25_Witness ==
    /\ expiration_time = 0
    /\ utcnow_ts = MaxUtc
    /\ call.fn = "_clear"
    /\ call.at = MaxUtc
    /\ \E k, j \in DOMAIN cache : /\ written[k].at = 0
                                   /\ written[k].value # NO_VALUE
                                   /\ written[j].at > 0
                                   /\ get(cache, k).ret = written[k].value

\* an entry whose timeout has passed at time t (timeout 0: never)
Passed(entry, t) == entry.timeout > 0 /\ t >= entry.timeout

\* C26: every set and set_multi expunges all expired keys: right after the
\* call (at the time of the call, and until the next call) the dictionary
\* holds no entry whose timeout had passed when the call was made, so what
\* remains are the entries just written and entries that had not expired.
C26_SetExpunges ==
    call.fn \in {"set", "set_multi"} =>
        \A k \in DOMAIN cache :
            /\ ~Passed(cache[k], call.at)
            /\ cache[k].value = written[k].value
            /\ expiration_time > 0 =>
                   cache[k].timeout = written[k].at + expiration_time
\* a set of one key has expunged the other key, which had been set and had
\* expired without being read or deleted
C26_Witness ==
    /\ call.fn = "set"
    /\ utcnow_ts = call.at
    /\ DOMAIN cache = {call.args[1]}
    /\ expiration_time > 0
    /\ \E k \in Keys \ DOMAIN cache :
           /\ written[k].value # NO_VALUE
           /\ written[k].at + expiration_time = call.at

\* C27: set_multi(mapping) replaces or inserts the value of every key of the
\* mapping (a get after it returns the mapping's value), and for every key
\* not in the mapping a get after it returns what a get before it would have
\* returned.
C27_SetMultiFrame ==
    [][(call'.fn = "set_multi" /\ DictSetMulti(call'.args[1])) =>
          LET mapping == call'.args[1]
          IN  /\ \A k \in DOMAIN mapping : get(cache', k).ret = mapping[k]
              /\ \A k \in Keys \ DOMAIN mapping :
                     get(cache', k).ret = get(cache, k).ret]_vars
\* a set_multi of key 1 alone has replaced the value key 1 had, and key 2,
\* set earlier and still live, reads as before
C27_Witness ==
    /\ call.fn = "set_multi"
    /\ utcnow_ts = call.at
    /\ expiration_time > 0
    /\ DOMAIN call.args[1] = {1}
    /\ DOMAIN cache = {1, 2}
    /\ written[2].at < call.at
    /\ cache[1].timeout > cache[2].timeout
    /\ get(cache, 2).ret = written[2].value
    /\ get(cache, 1).ret = call.args[1][1]

\* C28: get_multi(keys) returns a sequence as long as keys whose j-th
\* element is what get(keys[j]) returns (NO_VALUE for a missing key), in the
\* order of keys; the dictionary it leaves is the one the gets leave.
C28_GetMultiInOrder ==
    [][(call'.fn = "get_multi" /\ DictGetMulti(call'.args[1])) =>
          LET keys == call'.args[1]
              ret == call'.ret
          IN  /\ Len(ret) = Len(keys)
              /\ \A j \in 1..Len(keys) : ret[j] = get(cache, keys[j]).ret
              /\ \A k \in Keys : get(cache', k).ret = get(cache, k).ret]_vars
\* get_multi of <<2, 1>> has returned the value of key 2 first and NO_VALUE
\* for key 1, which had expired and is dropped
C28_Witness ==
    /\ call.fn = "get_multi"
    /\ call.args[1] = <<2, 1>>
    /\ call.ret[1] = written[2].value
    /\ call.ret[1] # NO_VALUE
    /\ call.ret[2] = NO_VALUE
    /\ written[1].value # NO_VALUE
    /\ DOMAIN cache = {2}

\* C29: should_cache returns true if and only if the global [cache] enabled
\* option is true and the group's caching option is true, a group without
\* the option counting as true; with the global option false it returns
\* false whatever the group says.
C29_ShouldCache ==
    call.fn = "should_cache" =>
        LET enabled == call.args[1]
            conf_group == call.args[2]
        IN  /\ call.ret \in BOOLEAN
            /\ call.ret <=> /\ enabled
                            /\ \/ "caching" \notin DOMAIN conf_group
                               \/ conf_group["caching"]
            /\ ~enabled => ~call.ret
\* caching switched off globally and on for the group: false
C29_Witness ==
    /\ call.fn = "should_cache"
    /\ ~call.args[1]
    /\ "caching" \in DOMAIN call.args[2]
    /\ call.args[2]["caching"]
    /\ call.ret = FALSE

\* the states of a thread inside _drop_expired_connections
InScan == {"reap", "reap_pop", "reap_destroy"}

C31_QueueOrdered ==
    \A i, j \in 1..Len(queue) : i < j => queue[i].ttl <= queue[j].ttl
\* two idle clients released at different times, the older at the head
C31_Witness ==
    /\ Len(queue) = 2
    /\ queue[1].ttl < queue[2].ttl
    /\ queue[1].ttl < clock

\* C32: reuse is LIFO and reaping works at the other end: a hand-out from a
\* non-empty idle queue gives the client at the tail, the one released last,
\* and leaves the items before it as they were; a reap step takes the item at
\* the head, whose ttl no other item's is below.
C32_LifoReuse ==
    [][/\ (HandOut /\ queue # <<>>) =>
             /\ Got = {queue[Len(queue)].connection}
             /\ \A i \in 1..Len(queue) : queue[Len(queue)].ttl >= queue[i].ttl
             /\ queue' = SubSeq(queue, 1, Len(queue) - 1)
       /\ \A t \in Threads :
             (pc[t] = "reap_pop" /\ pc'[t] = "reap_destroy") =>
                 /\ conn'[t] = queue[1].connection
                 /\ \A i \in 1..Len(queue) : queue[1].ttl <= queue[i].ttl
                 /\ queue' = SubSeq(queue, 2, Len(queue))]_vars
\* of two idle clients, one thread was handed the tail and the other thread
\* has taken the head off to destroy it
C32_Witness ==
    /\ maxsize = 2
    /\ created = 2
    /\ queue = <<>>
    /\ \E t, u \in Threads : /\ pc[t] = "block"
                             /\ pc[u] = "reap_destroy"
                             /\ conn[t] # conn[u]
                             /\ conn[u] \notin destroyed
    /\ destroyed = {}

\* C36: acquire() never yields a stale idle client: a client that acquire()
\* hands out from the idle queue has ttl >= the time of the hand-out (a
\* client it creates is new), whatever the threads and the clock did between
\* the reap scan and the hand-out.
C36_NeverStale ==
    [][\A t \in Threads :
          (pc[t] \in {"get", "woken"} /\ pc'[t] = "block" /\ queue # <<>>) =>
              /\ conn'[t] = queue[Len(queue)].connection
              /\ queue[Len(queue)].ttl >= clock]_vars

\* C37: for a pool with maxsize N > 0, 0 <= _acquired <= N in every reachable
\* state: a put_nowait when nothing is counted as outstanding raises
\* queue.Full and changes neither the counter nor the idle queue, and no
\* client is handed out while the counter is N.
C37_CountInRange ==
    /\ [](maxsize > 0 => (0 <= _acquired /\ _acquired <= maxsize))
    /\ [][/\ HandOut => _acquired < maxsize
          /\ \A t \in Threads :
                (_acquired = 0 /\ pc[t] = "idle" /\ pc'[t] = "idle"
                     /\ (PutNowait(t) \/ PutForeign(t))) =>
                    /\ result'[t] = "Full"
                    /\ _acquired' = 0
                    /\ queue' = queue]_vars
\* one caller's put_nowait was rejected with nothing outstanding, after the
\* other's get_nowait was rejected with maxsize clients outstanding
C37_Witness ==
    /\ result[1] = "Full"
    /\ result[2] = "Empty"
    /\ _acquired = 0
    /\ Len(queue) = maxsize

\* C38: no step changes an entry of _hosts_deaduntil that is still in the
\* future: a release at time now leaves every entry > now as it is, whatever
\* the released client shows for the host (alive, an earlier or a later
\* time), so a dead-until T once recorded stays T until time T has passed.
C38_FutureEntryKept ==
    [][\A i \in Hosts :
          _hosts_deaduntil[i] > clock =>
              _hosts_deaduntil'[i] = _hosts_deaduntil[i]]_vars
\* the client released last, at the present time, shows host i alive, and
\* the pool's entry for i, recorded by an earlier release, is still there
C38_Witness ==
    \E i \in Hosts :
        /\ queue # <<>>
        /\ queue[Len(queue)].ttl = clock + _unused_timeout
        /\ servers[queue[Len(queue)].connection][i] <= clock
        /\ _hosts_deaduntil[i] > clock
        /\ _hosts_deaduntil[i] = accepted[i]
        /\ result[1] = "put"

\* C39: after every successful acquisition the client handed out shows, for
\* every host i, exactly the pool's entry for i at that time: its own value
\* is overwritten also when the entry is 0 or stale and when its own value
\* was a later time in the future.
C39_ClientTakesEntries ==
    [][HandOut =>
          \A c \in Got : \A i \in Hosts :
              servers'[c][i] = _hosts_deaduntil[i]]_vars
\* some client showed host i dead until a time that is still to come when it
\* was released, the pool kept an earlier mark, and now every client is
\* checked out and none shows the later time: it was overwritten
C39_Witness ==
    \E i \in Hosts :
        /\ created >= 1
        /\ queue = <<>>
        /\ reported[i] > clock
        /\ _hosts_deaduntil[i] < reported[i]
        /\ \A c \in 1..created : /\ c \in held
                                  /\ servers[c][i] = _hosts_deaduntil[i]

\* C33: when the propagation of the dead-host marks into a client fails
\* during an acquisition, the client (popped or just created) is at the tail
\* of the idle queue with a fresh ttl afterwards, _acquired is what it was
\* before the acquisition, the caller gets the error and holds no client.
C33_FailedPropagation ==
    [][\A t \in Threads :
          (result'[t] = "PropagateError"
              /\ (GetNowait(t) \/ Get(t) \/ Recheck(t))) =>
              /\ _acquired' = _acquired
              /\ _acquired < maxsize
              /\ queue' # <<>>
              /\ queue'[Len(queue')] =
                     [ttl |-> clock + _unused_timeout,
                      connection |-> IF queue # <<>>
                                     THEN queue[Len(queue)].connection
                                     ELSE created + 1]
              /\ SubSeq(queue', 1, Len(queue') - 1) =
                     SubSeq(queue, 1, Len(queue) - 1)
              /\ created' = IF queue # <<>> THEN created ELSE created + 1
              /\ held' = held
              /\ conn'[t] = NoConn
              /\ pc'[t] = "idle"
              /\ _hosts_deaduntil' = _hosts_deaduntil]_vars
\* a get_nowait failed after the first of two hosts: the new client is idle,
\* nothing is counted as outstanding, and the client shows the pool's mark
\* for host 1 but not yet for host 2
C33_Witness ==
    /\ urls = 2
    /\ result[1] = "PropagateError"
    /\ _acquired = 0
    /\ created = 2
    /\ Len(queue) = 2
    /\ queue[2].connection = 2
    /\ servers[2][1] = _hosts_deaduntil[1]
    /\ _hosts_deaduntil[1] > clock
    /\ _hosts_deaduntil[2] > clock
    /\ servers[2][2] # _hosts_deaduntil[2]

\* C34: when the harvest of the dead-host marks from a client fails during a
\* release, the client is still appended to the idle queue with a fresh ttl
\* and _acquired is still lowered by one; the entries of _hosts_deaduntil
\* written before the failure keep their new values (those of the hosts
\* the loop had dealt with), the others keep their old ones.
C34_FailedHarvest ==
    [][\A t \in Threads :
          (result'[t] = "HarvestError" /\ (PutNowait(t) \/ Finally(t))) =>
              \E c \in CheckedOut :
                  /\ queue' = Append(queue, [ttl |-> clock + _unused_timeout,
                                             connection |-> c])
                  /\ c \notin CheckedOut'
                  /\ _acquired' = _acquired - 1
                  /\ destroyed' = destroyed
                  /\ harvested' \in 0..urls
                  /\ \A i \in Hosts :
                        _hosts_deaduntil'[i] =
                            IF i > harvested' \/ _hosts_deaduntil[i] > clock
                            THEN _hosts_deaduntil[i]
                            ELSE IF servers[c][i] > clock
                                 THEN servers[c][i]
                                 ELSE 0]_vars
\* a release failed after the first of two hosts: the client is idle, the
\* entry of host 1 holds the client's mark, the entry of host 2 does not
C34_Witness ==
    /\ urls = 2
    /\ result[1] = "HarvestError"
    /\ harvested = 1
    /\ _acquired = 0
    /\ Len(queue) = 1
    /\ queue[1].ttl = clock + _unused_timeout
    /\ servers[queue[1].connection][1] > clock
    /\ servers[queue[1].connection][2] > clock
    /\ _hosts_deaduntil[1] = servers[queue[1].connection][1]
    /\ _hosts_deaduntil[2] = 0

\* C35: under fair scheduling a caller that waits in acquire() without a
\* timeout does not stay in the wait for ever while _acquired < maxsize:
\* from every state where it waits and a slot is free, a state is reached
\* where it waits no longer or no slot is free.
C35_NoStrandedWaiter ==
    \A t \in Threads :
        (pc[t] = "waiting" /\ _connection_get_timeout = None
                           /\ _acquired < maxsize)
            ~> ~(pc[t] = "waiting" /\ _acquired < maxsize)

=============================================================================
